---- MODULE Spec2Model ----
(***************************************************************************)
(* A model of app.py: one Streamlit script run of main() after another.    *)
(* A run checks ffmpeg, loads (or reuses) the Whisper model, renders the   *)
(* page and the uploader and, when a file is uploaded and the button was   *)
(* clicked, saves the upload to a temporary file, transcribes it, renders  *)
(* the result and deletes the file.  The file system (fs) and the cached   *)
(* model survive from one run to the next; everything else is per run.     *)
(*                                                                         *)
(* Strings that the code takes apart (file names, paths) are sequences of  *)
(* one-character strings.  The external calls (ffmpeg, whisper, the file   *)
(* system) succeed or raise, chosen nondeterministically.                  *)
(***************************************************************************)
EXTENDS Integers, Sequences, FiniteSets, TLC

\* ------------------------------------------------------------ bounds
MaxRuns == 2
MaxRand == 2
MaxSegs == 2
MaxNameLen == 3

\* ------------------------------------------------------------ values
NoneVal == <<>>

NoUpload == [name |-> <<>>, data |-> ""]

NoResult == [text |-> "", segments |-> <<>>]

\* A value that the format spec .1f cannot format (None, a string).
NotANumber == -1

ExcMsgs == {"e1", "e2"}

Chars == {"a", "b", "."}

Digits == <<"1", "2", "3", "4", "5", "6", "7", "8", "9">>

RandChars == {Digits[i] : i \in 1..MaxRand}

TmpPrefix == <<"/", "t", "m", "p">>

RECURSIVE SeqsUpTo(_, _)
SeqsUpTo(S, n) ==
    IF n = 0 THEN {<<>>}
    ELSE LET shorter == SeqsUpTo(S, n - 1)
         IN  shorter \cup {Append(s, c) : s \in shorter, c \in S}

Names == SeqsUpTo(Chars, MaxNameLen)

EndsWith(s, t) ==
    /\ Len(t) <= Len(s)
    /\ SubSeq(s, Len(s) - Len(t) + 1, Len(s)) = t

\* st.file_uploader(type=[...]): the extensions the uploader lets through.
AllowedTypes ==
    { <<"m", "p", "3">>, <<"w", "a", "v">>, <<"m", "4", "a">>,
      <<"m", "p", "4">>, <<"o", "g", "g">>, <<"f", "l", "a", "c">> }

FileUploaderAccepts(name) ==
    \E t \in AllowedTypes : EndsWith(name, <<".">> \o t)

CandidateNames ==
    { <<"a", ".", "m", "p", "3">>,
      <<"a", ".", "b", ".", "w", "a", "v">>,
      <<"a", ".", "t", "x", "t">> }

Uploads ==
    { [name |-> n, data |-> d] :
        n \in {c \in CandidateNames : FileUploaderAccepts(c)}, d \in {"d1"} }

\* What model.transcribe may return: the segments are the external model's.
Segs ==
    { [start |-> 0, end |-> 125, text |-> "s1"],
      [start |-> 125, end |-> 250, text |-> "s2"],
      [start |-> NotANumber, end |-> 250, text |-> "s3"] }

Results ==
    { [text |-> t, segments |-> s] :
        t \in {"t1", "t2"}, s \in SeqsUpTo(Segs, MaxSegs) }

\* ------------------------------------------------------------ state
VARIABLES
    pc,             \* where the script run is
    runs,           \* script runs started so far
    ffmpegOk,       \* whether `ffmpeg -version` succeeds during this run
    cachedModel,    \* st.cache_resource holds the loaded model
    loadedThisRun,  \* whisper.load_model returned in this run
    uploaded_file,  \* the uploader's value in this run
    clicked,        \* the button's value in this run
    fs,             \* the temporary directory: path -> [content, open]
    created,        \* the path NamedTemporaryFile created in this run
    temp_path,      \* main's local temp_path
    locals,         \* the names bound in main's frame
    result,         \* main's local result
    segIdx,         \* position of the for loop over result["segments"]
    progress,       \* the progress bar's value, -1 while there is none
    exc,            \* the text of the exception being handled
    excSrc,         \* the call that raised it
    unlinks,        \* outcome of each os.unlink of this run, in order
    display,        \* what this run has put on the page, in order
    trace           \* this run's temp-file events, in order

vars ==
    << pc, runs, ffmpegOk, cachedModel, loadedThisRun, uploaded_file, clicked,
       fs, created, temp_path, locals, result, segIdx, progress, exc, excSrc,
       unlinks, display, trace >>

\* ------------------------------------------------------------ helpers
Elem(kind, head, text, a, b) ==
    [kind |-> kind, head |-> head, text |-> text, a |-> a, b |-> b]

Widget(kind, head) == Elem(kind, head, "", 0, 0)

ErrorBox(head, text) == Elem("error", head, text, 0, 0)

HasDot(s) == \E i \in 1..Len(s) : s[i] = "."

FirstDot(s) == CHOOSE i \in 1..Len(s) : s[i] = "." /\ \A j \in 1..(i - 1) : s[j] # "."

\* str.split('.')
RECURSIVE Split(_)
Split(s) ==
    IF ~HasDot(s) THEN <<s>>
    ELSE <<SubSeq(s, 1, FirstDot(s) - 1)>> \o Split(SubSeq(s, FirstDot(s) + 1, Len(s)))

SuffixFirstPart(name) == <<".">> \o Split(name)[1]

\* suffix = f".{uploaded_file.name.split('.')[-1]}"
Suffix(name) == <<".">> \o Split(name)[Len(Split(name))]

\* tempfile's name: directory and prefix, a random part, the suffix.
TmpPath(r, suffix) == TmpPrefix \o <<r>> \o suffix

\* f"{x:.1f}" of a time given in hundredths of a second: tenths, half to even.
Fmt1f(x) ==
    LET q == x \div 10
        r == x % 10
    IN  IF r > 5 \/ (r = 5 /\ q % 2 = 1) THEN q + 1 ELSE q

Formattable(seg) == seg.start # NotANumber /\ seg.end # NotANumber

\* f"{seg['start']:.1f}s - {seg['end']:.1f}s: {seg['text']}"
SegmentLine(seg) == Elem("write", "", seg.text, Fmt1f(seg.start), Fmt1f(seg.end))

SegmentAtReversed(res, i) == res.segments[Len(res.segments) - i + 1]

\* the i-th element the for loop visits
SegmentAt(res, i) == res.segments[i]

GenericFailure(e) == ErrorBox("Transcription failed", "")

\* st.error(f"Transcription failed: {str(e)}")
TranscriptionFailed(e) == ErrorBox("Transcription failed", e)

Exists(path) == path \in DOMAIN fs

Removed(path) == [p \in (DOMAIN fs) \ {path} |-> fs[p]]

LeftOpen(path) == fs

\* leaving the with block closes the file (delete=False keeps it)
Closed(path) == [fs EXCEPT ![path].open = FALSE]

\* what model.transcribe needs of the file it is given
Readable(path) ==
    /\ Exists(path)
    /\ ~fs[path].open
    /\ fs[path].content = uploaded_file.data

EndRun == pc' = "done"

NoStop == pc' = (IF pc = "verify" THEN "load" ELSE "page")

\* st.stop(): the script run ends here
Stop == pc' = "done"

\* ------------------------------------------------------------ Init
Init ==
    /\ pc = "idle"
    /\ runs = 0
    /\ ffmpegOk = TRUE
    /\ cachedModel = FALSE
    /\ loadedThisRun = FALSE
    /\ uploaded_file = NoUpload
    /\ clicked = FALSE
    /\ fs = <<>>
    /\ created = NoneVal
    /\ temp_path = NoneVal
    /\ locals = {}
    /\ result = NoResult
    /\ segIdx = 0
    /\ progress = -1
    /\ exc = ""
    /\ excSrc = "none"
    /\ unlinks = <<>>
    /\ display = <<>>
    /\ trace = <<>>

\* ------------------------------------------------------------ actions
\* The framework runs the script: main() is entered with this run's widget
\* values and environment.
StartRun(ff, up, click) ==
    /\ pc \in {"idle", "done"}
    /\ runs < MaxRuns
    /\ pc' = "verify"
    /\ runs' = runs + 1
    /\ ffmpegOk' = ff
    /\ uploaded_file' = up
    /\ clicked' = click
    /\ loadedThisRun' = FALSE
    /\ created' = NoneVal
    /\ temp_path' = NoneVal
    /\ locals' = {}
    /\ result' = NoResult
    /\ segIdx' = 0
    /\ progress' = -1
    /\ exc' = ""
    /\ excSrc' = "none"
    /\ unlinks' = <<>>
    /\ display' = <<>>
    /\ trace' = <<>>
    /\ UNCHANGED <<cachedModel, fs>>

verify_system_dependencies ==
    /\ pc = "verify"
    /\ IF ffmpegOk
       THEN /\ pc' = "load"
            /\ UNCHANGED display
       ELSE /\ display' = Append(display, ErrorBox("FFmpeg not found", ""))
            /\ Stop
    /\ UNCHANGED << runs, ffmpegOk, cachedModel, loadedThisRun, uploaded_file,
                    clicked, fs, created, temp_path, locals, result, segIdx,
                    progress, exc, excSrc, unlinks, trace >>

load_whisper_model(outcome) ==
    /\ pc = "load"
    /\ IF cachedModel
       THEN /\ pc' = "page"
            /\ UNCHANGED <<cachedModel, loadedThisRun, display>>
       ELSE IF outcome = "ok"
       THEN /\ cachedModel' = TRUE
            /\ loadedThisRun' = TRUE
            /\ pc' = "page"
            /\ UNCHANGED display
       ELSE /\ display' = Append(display, ErrorBox("Model loading failed", outcome))
            /\ Stop
            /\ UNCHANGED <<cachedModel, loadedThisRun>>
    /\ UNCHANGED << runs, ffmpegOk, uploaded_file, clicked, fs, created,
                    temp_path, locals, result, segIdx, progress, exc, excSrc,
                    unlinks, trace >>

RenderPage ==
    /\ pc = "page"
    /\ display' = display \o << Widget("title", "Whisper AI Voice to Text Converter"),
                                Widget("markdown", "Upload an audio file"),
                                Widget("expander", "System Information") >>
    /\ pc' = "uploader"
    /\ UNCHANGED << runs, ffmpegOk, cachedModel, loadedThisRun, uploaded_file,
                    clicked, fs, created, temp_path, locals, result, segIdx,
                    progress, exc, excSrc, unlinks, trace >>

FileUploader ==
    /\ pc = "uploader"
    /\ IF uploaded_file # NoUpload
       THEN /\ display' = display \o << Widget("file_uploader", "Choose an audio file"),
                                        Widget("audio", ""),
                                        Widget("button", "Transcribe Audio") >>
            /\ IF clicked THEN pc' = "save_create" ELSE EndRun
       ELSE /\ display' = Append(display, Widget("file_uploader", "Choose an audio file"))
            /\ EndRun
    /\ UNCHANGED << runs, ffmpegOk, cachedModel, loadedThisRun, uploaded_file,
                    clicked, fs, created, temp_path, locals, result, segIdx,
                    progress, exc, excSrc, unlinks, trace >>

\* save_uploaded_file returning None to main, after st.error
SaveFailed(e) ==
    /\ display' = Append(display, ErrorBox("File handling error", e))
    /\ temp_path' = NoneVal
    /\ locals' = locals \cup {"temp_path"}
    /\ pc' = "after_save"

\* suffix, then tempfile.NamedTemporaryFile(delete=False, suffix=suffix)
SaveCreate(outcome, r) ==
    /\ pc = "save_create"
    /\ LET path == TmpPath(r, Suffix(uploaded_file.name))
       IN  IF outcome = "ok"
           THEN /\ ~Exists(path)    \* tempfile picks a name not in use
                /\ fs' = [p \in DOMAIN fs \cup {path} |->
                            IF p = path THEN [content |-> "", open |-> TRUE] ELSE fs[p]]
                /\ created' = path
                /\ trace' = Append(trace, "created")
                /\ pc' = "save_write"
                /\ UNCHANGED <<display, temp_path, locals>>
           ELSE /\ SaveFailed(outcome)
                /\ UNCHANGED <<fs, created, trace>>
    /\ UNCHANGED << runs, ffmpegOk, cachedModel, loadedThisRun, uploaded_file,
                    clicked, result, segIdx, progress, exc, excSrc, unlinks >>

\* tmp_file.write(uploaded_file.getvalue())
SaveWrite(outcome) ==
    /\ pc = "save_write"
    /\ IF outcome = "ok"
       THEN /\ fs' = [fs EXCEPT ![created].content = uploaded_file.data]
            /\ trace' = Append(trace, "written")
            /\ pc' = "save_close"
            /\ UNCHANGED <<display, temp_path, locals>>
       ELSE /\ fs' = Closed(created)
            /\ trace' = Append(trace, "closed")
            /\ SaveFailed(outcome)
    /\ UNCHANGED << runs, ffmpegOk, cachedModel, loadedThisRun, uploaded_file,
                    clicked, created, result, segIdx, progress, exc, excSrc,
                    unlinks >>

\* return tmp_file.name, through the with block's exit
SaveClose(outcome) ==
    /\ pc = "save_close"
    /\ trace' = Append(trace, "closed")
    /\ IF outcome = "ok"
       THEN /\ fs' = Closed(created)
            /\ temp_path' = created
            /\ locals' = locals \cup {"temp_path"}
            /\ pc' = "after_save"
            /\ UNCHANGED display
       ELSE /\ fs' = [Closed(created) EXCEPT ![created].content = ""]
            /\ SaveFailed(outcome)
    /\ UNCHANGED << runs, ffmpegOk, cachedModel, loadedThisRun, uploaded_file,
                    clicked, created, result, segIdx, progress, exc, excSrc,
                    unlinks >>

MainAfterSaveNoCheck ==
    /\ pc = "after_save"
    /\ progress' = 0
    /\ pc' = "transcribe"
    /\ UNCHANGED << runs, ffmpegOk, cachedModel, loadedThisRun, uploaded_file,
                    clicked, fs, created, temp_path, locals, result, segIdx,
                    exc, excSrc, unlinks, display, trace >>

\* if not temp_path: return; progress_bar = st.progress(0)
MainAfterSave ==
    /\ pc = "after_save"
    /\ IF temp_path = NoneVal
       THEN /\ EndRun
            /\ UNCHANGED progress
       ELSE /\ progress' = 0
            /\ pc' = "transcribe"
    /\ UNCHANGED << runs, ffmpegOk, cachedModel, loadedThisRun, uploaded_file,
                    clicked, fs, created, temp_path, locals, result, segIdx,
                    exc, excSrc, unlinks, display, trace >>

\* result = model.transcribe(temp_path, fp16=False)
Transcribe(outcome, r) ==
    /\ pc = "transcribe"
    /\ trace' = Append(trace, "transcribe")
    /\ IF outcome = "ok" /\ Readable(temp_path)
       THEN /\ result' = r
            /\ pc' = "show"
            /\ UNCHANGED <<exc, excSrc>>
       ELSE /\ exc' \in (IF outcome = "ok" THEN ExcMsgs ELSE {outcome})
            /\ excSrc' = "transcribe"
            /\ pc' = "handler"
            /\ UNCHANGED result
    /\ UNCHANGED << runs, ffmpegOk, cachedModel, loadedThisRun, uploaded_file,
                    clicked, fs, created, temp_path, locals, segIdx, progress,
                    unlinks, display >>

\* progress_bar.progress(100), the subheader, st.code, the expander
ShowResults ==
    /\ pc = "show"
    /\ progress' = 100
    /\ display' = display \o << Widget("subheader", "Transcription Result"),
                                Elem("code", "", result.text, 0, 0),
                                Widget("expander", "Detailed Timestamps") >>
    /\ segIdx' = 1
    /\ pc' = "segments"
    /\ UNCHANGED << runs, ffmpegOk, cachedModel, loadedThisRun, uploaded_file,
                    clicked, fs, created, temp_path, locals, result, exc,
                    excSrc, unlinks, trace >>

\* one turn of: for seg in result["segments"]: st.write(...)
WriteSegment ==
    /\ pc = "segments"
    /\ IF segIdx > Len(result.segments)
       THEN /\ trace' = Append(trace, "rendered")
            /\ pc' = "cleanup"
            /\ UNCHANGED <<display, segIdx, exc, excSrc>>
       ELSE IF Formattable(SegmentAt(result, segIdx))
       THEN /\ display' = Append(display, SegmentLine(SegmentAt(result, segIdx)))
            /\ segIdx' = segIdx + 1
            /\ UNCHANGED <<pc, trace, exc, excSrc>>
       ELSE /\ exc' = "format"
            /\ excSrc' = "render"
            /\ pc' = "handler"
            /\ UNCHANGED <<display, segIdx, trace>>
    /\ UNCHANGED << runs, ffmpegOk, cachedModel, loadedThisRun, uploaded_file,
                    clicked, fs, created, temp_path, locals, result, progress,
                    unlinks >>

\* os.unlink(temp_path) at the end of the try block
Cleanup(ok) ==
    /\ pc = "cleanup"
    /\ IF ok /\ Exists(temp_path)
       THEN /\ fs' = Removed(temp_path)
            /\ unlinks' = Append(unlinks, TRUE)
            /\ trace' = Append(trace, "deleted")
            /\ EndRun
            /\ UNCHANGED <<exc, excSrc>>
       ELSE /\ unlinks' = Append(unlinks, FALSE)
            /\ exc' = "oserror"
            /\ excSrc' = "unlink"
            /\ pc' = "handler"
            /\ UNCHANGED <<fs, trace>>
    /\ UNCHANGED << runs, ffmpegOk, cachedModel, loadedThisRun, uploaded_file,
                    clicked, created, temp_path, locals, result, segIdx,
                    progress, display >>

HandlerNoCleanup(ok) ==
    /\ UNCHANGED <<fs, unlinks, trace>>

\* if "temp_path" in locals(): try: os.unlink(temp_path) / except: pass
HandlerCleanup(ok) ==
    IF "temp_path" \in locals
    THEN IF ok /\ Exists(temp_path)
         THEN /\ fs' = Removed(temp_path)
              /\ unlinks' = Append(unlinks, TRUE)
              /\ trace' = Append(trace, "deleted")
         ELSE /\ unlinks' = Append(unlinks, FALSE)
              /\ UNCHANGED <<fs, trace>>
    ELSE UNCHANGED <<fs, unlinks, trace>>

\* except Exception as e:
Handler(ok) ==
    /\ pc = "handler"
    /\ display' = Append(display, TranscriptionFailed(exc))
    /\ HandlerCleanup(ok)
    /\ EndRun
    /\ UNCHANGED << runs, ffmpegOk, cachedModel, loadedThisRun, uploaded_file,
                    clicked, created, temp_path, locals, result, segIdx,
                    progress, exc, excSrc >>

Outcomes == {"ok"} \cup ExcMsgs

Next ==
    \/ \E ff \in BOOLEAN, up \in {NoUpload} \cup Uploads, click \in BOOLEAN :
          StartRun(ff, up, click)
    \/ verify_system_dependencies
    \/ \E o \in Outcomes : load_whisper_model(o)
    \/ RenderPage
    \/ FileUploader
    \/ \E o \in Outcomes, r \in RandChars : SaveCreate(o, r)
    \/ \E o \in Outcomes : SaveWrite(o)
    \/ \E o \in Outcomes : SaveClose(o)
    \/ MainAfterSave
    \/ \E o \in Outcomes, r \in Results : Transcribe(o, r)
    \/ ShowResults
    \/ WriteSegment
    \/ \E ok \in BOOLEAN : Cleanup(ok)
    \/ \E ok \in BOOLEAN : Handler(ok)

Spec == Init /\ [][Next]_vars

\* ------------------------------------------------------------ save_uploaded_file alone
\* save_uploaded_file(uploaded_file) called on a file of any name.
InitSuffix ==
    /\ pc = "save_create"
    /\ runs = 1
    /\ ffmpegOk = TRUE
    /\ cachedModel = TRUE
    /\ loadedThisRun = FALSE
    /\ uploaded_file \in [name : Names, data : {"d1"}]
    /\ clicked = TRUE
    /\ fs = <<>>
    /\ created = NoneVal
    /\ temp_path = NoneVal
    /\ locals = {}
    /\ result = NoResult
    /\ segIdx = 0
    /\ progress = -1
    /\ exc = ""
    /\ excSrc = "none"
    /\ unlinks = <<>>
    /\ display = <<>>
    /\ trace = <<>>

NextSuffix ==
    \/ \E o \in Outcomes, r \in RandChars : SaveCreate(o, r)
    \/ \E o \in Outcomes : SaveWrite(o)
    \/ \E o \in Outcomes : SaveClose(o)

SpecSuffix == InitSuffix /\ [][NextSuffix]_vars

\* ------------------------------------------------------------ properties
IsCode(e) == e.kind = "code"

IsLine(e) == e.kind = "write"

IsError(e) == e.kind = "error"

IsFailure(e) == e.kind = "error" /\ e.head = "Transcription failed"

IsFileError(e) == e.kind = "error" /\ e.head = "File handling error"

IsPageWidget(e) == e.kind \in {"title", "markdown", "expander", "file_uploader", "audio", "button"}

IsTranscribe(ev) == ev = "transcribe"

IsCreated(ev) == ev = "created"

Shown(Test(_)) == Len(SelectSeq(display, Test)) > 0

Happened(ev) == \E i \in 1..Len(trace) : trace[i] = ev

RequestFinished == pc = "done" /\ "temp_path" \in locals

PathReturned == RequestFinished /\ temp_path # NoneVal

SaveReturnedNone == RequestFinished /\ temp_path = NoneVal

Rank(ev) ==
    CASE ev = "created" -> 1
      [] ev = "written" -> 2
      [] ev = "closed" -> 3
      [] ev = "transcribe" -> 4
      [] ev = "rendered" -> 5
      [] ev = "deleted" -> 6

C2_ResultShownAsReturned ==
    (PathReturned /\ excSrc = "none") =>
        LET codes == SelectSeq(display, IsCode)
            lines == SelectSeq(display, IsLine)
        IN  /\ Len(codes) = 1
            /\ codes[1].text = result.text
            /\ Len(lines) = Len(result.segments)
            /\ \A i \in 1..Len(lines) :
                  /\ lines[i].text = result.segments[i].text
                  /\ lines[i].a = Fmt1f(result.segments[i].start)
                  /\ lines[i].b = Fmt1f(result.segments[i].end)

\* C2 witness: a request that rendered two different segments has finished.
C2_Witness ==
    /\ PathReturned
    /\ excSrc = "none"
    /\ Len(result.segments) = 2
    /\ result.segments[1] # result.segments[2]
    /\ result.text = "t2"

\* C3: model.transcribe is invoked at most once in a request, and when it
\* raised, the finished request shows exactly one error, "Transcription
\* failed" with the exception's text, and no transcription result.
C3_TranscribeFailureShownOnce ==
    /\ Len(SelectSeq(trace, IsTranscribe)) <= 1
    /\ (pc = "done" /\ excSrc = "transcribe") =>
          /\ SelectSeq(display, IsError) = <<ErrorBox("Transcription failed", exc)>>
          /\ exc \in ExcMsgs
          /\ ~Shown(IsCode)
          /\ ~Shown(IsLine)
          /\ \A i \in 1..Len(display) : display[i].kind # "subheader"
          /\ Len(SelectSeq(trace, IsTranscribe)) = 1

\* C3 witness: a request whose transcription raised "e2" has finished.
C3_Witness ==
    /\ pc = "done"
    /\ excSrc = "transcribe"
    /\ exc = "e2"

\* C4: the temp-file events of a request occur in the order created, written,
\* closed, transcribe, rendered, deleted; model.transcribe is invoked only on
\* a file that exists, is closed and holds all the uploaded bytes; a file is
\* deleted only after model.transcribe returned or raised; and a request in
\* which nothing raised goes through all six events.
C4_TempFileEventOrder ==
    /\ \A i, j \in 1..Len(trace) : i < j => Rank(trace[i]) < Rank(trace[j])
    /\ pc = "transcribe" =>
          /\ Exists(temp_path)
          /\ ~fs[temp_path].open
          /\ fs[temp_path].content = uploaded_file.data
    /\ Happened("transcribe") => (Happened("written") /\ Happened("closed"))
    /\ (created # NoneVal /\ ~Exists(created)) => Happened("transcribe")
    /\ Happened("deleted") => Happened("transcribe")
    /\ (PathReturned /\ excSrc = "none") =>
          trace = <<"created", "written", "closed", "transcribe", "rendered", "deleted">>

\* C4 witness: a request has gone through all six events.
C4_Witness ==
    /\ pc = "done"
    /\ trace = <<"created", "written", "closed", "transcribe", "rendered", "deleted">>

\* C5 as stated: a request creates at most one temporary file, a run with no
\* upload or no click creates none, and at most one temporary file created by
\* the program exists at any moment.
C5_AtMostOneTempFile ==
    /\ Len(SelectSeq(trace, IsCreated)) <= 1
    /\ (uploaded_file = NoUpload \/ ~clicked) => (created = NoneVal /\ trace = <<>>)
    /\ Cardinality(DOMAIN fs) <= 1

\* C6: in a run whose ffmpeg check fails, only the "FFmpeg not found" error
\* is shown and the run stops there: the model is not loaded, no page widget
\* is rendered, no temporary file is created, model.transcribe is not
\* invoked.  In a run whose model loading fails the run stops as well,
\* before any upload is saved or transcribed.
C6_StopOnFailedDependency ==
    /\ ~ffmpegOk =>
          /\ pc \in {"verify", "done"}
          /\ pc = "done" => display = <<ErrorBox("FFmpeg not found", "")>>
          /\ ~loadedThisRun
          /\ ~Shown(IsPageWidget)
          /\ created = NoneVal
          /\ trace = <<>>
    /\ (\E i \in 1..Len(display) :
            display[i].kind = "error" /\ display[i].head = "Model loading failed") =>
          /\ pc = "done"
          /\ ~loadedThisRun
          /\ ~cachedModel
          /\ Len(display) = 1
          /\ created = NoneVal
          /\ locals = {}
          /\ trace = <<>>

\* C6 witness: a run with a file uploaded, the button clicked and the model
\* cached by an earlier run has stopped at the failed ffmpeg check.
C6_Witness ==
    /\ pc = "done"
    /\ ~ffmpegOk
    /\ uploaded_file # NoUpload
    /\ clicked
    /\ cachedModel

\* C7: when save_uploaded_file returned None, the finished request shows
\* exactly one error, "File handling error", model.transcribe was not
\* invoked, no transcription result and no "Transcription failed" is shown.
C7_SaveFailureEndsRequest ==
    /\ (pc = "after_save" /\ temp_path = NoneVal) => Shown(IsFileError)
    /\ SaveReturnedNone =>
          /\ Len(SelectSeq(display, IsError)) = 1
          /\ Shown(IsFileError)
          /\ ~Happened("transcribe")
          /\ ~Shown(IsCode)
          /\ ~Shown(IsLine)
          /\ ~Shown(IsFailure)
          /\ progress = -1

\* C7 witness: a request has finished whose write to the temporary file
\* raised.
C7_Witness ==
    /\ SaveReturnedNone
    /\ created # NoneVal
    /\ trace = <<"created", "closed">>

AfterLastDot(name) ==
    LET dots == {i \in 1..Len(name) : name[i] = "."}
    IN  IF dots = {} THEN name
        ELSE LET last == CHOOSE i \in dots : \A j \in dots : j <= i
             IN  SubSeq(name, last + 1, Len(name))

PathSuffix(path) == SubSeq(path, Len(TmpPrefix) + 2, Len(path))

\* C8: the path save_uploaded_file returns ends with "." and the part of the
\* name after its last "."; for a name with no "." that is "." and the whole
\* name, for a name ending in "." just ".".
C8_SuffixIsLastExtension ==
    (pc = "after_save" /\ temp_path # NoneVal) =>
        LET name == uploaded_file.name
            noDot == \A i \in 1..Len(name) : name[i] # "."
        IN  /\ EndsWith(temp_path, <<".">> \o AfterLastDot(name))
            /\ PathSuffix(temp_path) = <<".">> \o AfterLastDot(name)
            /\ noDot => PathSuffix(temp_path) = <<".">> \o name
            /\ (Len(name) > 0 /\ name[Len(name)] = ".") => PathSuffix(temp_path) = <<".">>

\* C8 witness: save_uploaded_file has returned a path for the name ".a.",
\* which has two dots and ends in one.
C8_Witness ==
    /\ pc = "after_save"
    /\ temp_path # NoneVal
    /\ uploaded_file.name = <<".", "a", ".">>
    /\ PathSuffix(temp_path) = <<".">>

\* C9 as stated: when save_uploaded_file returned None after it had created
\* the temporary file, that file is gone when the request has finished.
C9_NoFileLeftAfterFailedSave ==
    (SaveReturnedNone /\ created # NoneVal) => ~Exists(created)

\* C10 as stated: a transcription result and a "Transcription failed" error
\* are never both shown in a request, and the progress bar is at 100 only
\* when model.transcribe returned without raising.
C10_ResultAndFailureExclusive ==
    /\ ~(Shown(IsCode) /\ Shown(IsFailure))
    /\ progress = 100 => (Happened("transcribe") /\ excSrc # "transcribe")

====
